---- MODULE Spec2Model ----
(***************************************************************************)
(* Board state reconciliation of the sales-pipeline kanban board:          *)
(* src/src/pages/Board.tsx (lead collection, loads, change notifications,  *)
(* drag-and-drop stage transitions, selection, search filters, column      *)
(* layout and its persistence),                                            *)
(* src/src/components/kanban/SearchFilters.tsx (ResizableKanbanColumn) and *)
(* src/src/components/kanban/BulkActionsBar.tsx (bulk soft delete),        *)
(* against a remote store that other clients also write to.                *)
(***************************************************************************)
EXTENDS Integers, Sequences, FiniteSets, Bags, TLC

\* ------------------------------------------------------------------------
\* Wire-level constants
\* ------------------------------------------------------------------------

\* JavaScript null (payment_type, delivery_method, activeId, over)
None == "null"

\* Board.tsx:62-70, the seven stage columns in board order
columns ==
  <<"leads", "photos_received", "mockup_done", "price_shared",
    "payment_done", "production", "delivered">>

\* Board.tsx:194, the ids handleDragEnd accepts as a column
validStatuses ==
  {"leads", "photos_received", "mockup_done", "price_shared",
   "payment_done", "production", "delivered"}

\* Board.tsx:40
PaymentType == {"full_payment", "partial_payment", "cod"}

\* Board.tsx:41
DeliveryMethod == {"courier", "store_collection"}

\* ------------------------------------------------------------------------
\* Bounds and input sets of the model
\* ------------------------------------------------------------------------

\* fetchLeads requests that may be in flight at once
MaxInFlight == 2

\* status updates (drags) that may be in flight at once
MaxUpdates == 1

\* change notifications that may be queued for the subscription at once
MaxNotes == 2

\* rows the deleted_leads table may hold
MaxTrash == 2

\* upserts of saveUserPreferences that may be in flight at once
MaxSaves == 1

\* most entries of selectedLeads when handleLeadSelect is called with any
\* arguments
MaxSelected == 3

\* e.clientX - rect.left of the mousemove events of a resize: left of the
\* range, inside it, right of it
PointerWidths == {100, 400, 700}

\* ids of the leads of a run, newest (largest created_at) first
newestFirst == <<"L2", "L1">>

LeadIds == {newestFirst[k] : k \in 1..Len(newestFirst)}

\* the stages the leads of a board run move between: one that the gate
\* leaves open and one that it guards
BoardStages == {"payment_done", "production"}

\* payment_type of the leads of a run: one lead without, one with
seedPayment == [i \in LeadIds |-> IF i = "L1" THEN None ELSE "cod"]

\* order_id of the leads of a run
seedOrderId == [i \in LeadIds |->
                  IF i = "L1" THEN <<"F", "P", "-", "1">>
                  ELSE <<"F", "T", "-", "2">>]

\* lead_items of the leads of a run: one lead without items, one with an item
seedItems == [i \in LeadIds |->
                IF i = "L1" THEN <<>> ELSE <<[product_type |-> "fp_pro"]>>]

\* delivery_method of the leads of a run: one lead without, one with
seedDelivery == [i \in LeadIds |-> IF i = "L1" THEN None ELSE "courier"]

\* ------------------------------------------------------------------------
\* Notices (sonner toasts)
\* ------------------------------------------------------------------------

NoToast == "none"

\* Board.tsx:149
ToastFetchFailed == "Failed to fetch leads"

\* Board.tsx:209
ToastPaymentRequired(newStatus) ==
  IF newStatus = "production"
    THEN "Please set payment type before moving to Production"
    ELSE "Please set payment type before moving to Delivered"

\* Board.tsx:225
ToastUpdateFailed == "Failed to update lead status"

\* Board.tsx:230
ToastUpdated == "Lead status updated"

\* BulkActionsBar.tsx:87-89
ToastLeadsDeleted == "leads deleted (can be restored within 30 days)"

\* BulkActionsBar.tsx:94
ToastDeleteFailed == "Failed to delete leads"

ErrorToasts ==
  {ToastFetchFailed, ToastUpdateFailed, ToastDeleteFailed,
   ToastPaymentRequired("production"), ToastPaymentRequired("delivered")}

\* ------------------------------------------------------------------------
\* State
\* ------------------------------------------------------------------------

VARIABLES
  remote,         \* the leads table: present lead id |-> row
  trash,          \* the deleted_leads table: bag of snapshot rows
  notes,          \* change notifications queued for the subscription
  leads,          \* Board.tsx:74, the in-memory collection (sequence of rows)
  loads,          \* fetchLeads requests in flight, in issue order
  updates,        \* status updates of handleDragEnd in flight
  toast,          \* the notice shown last
  activeId,       \* Board.tsx:75, the card being dragged
  over,           \* the droppable under the dragged card (event.over)
  selectionMode,  \* Board.tsx:93
  selectedLeads,  \* Board.tsx:94
  bulk,           \* the run of handleBulkDelete: position and closure
  gateLead,       \* input of the transition gate
  gateTarget,     \* input of the transition gate
  gateResult,     \* outcome of the transition gate
  columnWidths,   \* Board.tsx:88, column id |-> configured width
  minimizedColumns, \* Board.tsx:89
  maximizedColumn,  \* Board.tsx:90
  resizing,       \* the column whose resize handle is held (isResizing)
  pointerWidth,   \* e.clientX - rect.left of the last mousemove of a resize
  prefLoad,       \* the request of loadUserPreferences
  prefStore,      \* the user's row of user_preferences
  prefSaves,      \* upserts of saveUserPreferences in flight
  searchTerm,     \* Board.tsx:82
  selectedProductType,    \* Board.tsx:83
  selectedStatus,         \* Board.tsx:84
  showMissingPaymentOnly, \* Board.tsx:85
  rendered,       \* what the last render derived: filteredLeads and the counter
  restore,        \* the run of handleRestore: position and the snapshot row
  deleteAll,      \* the run of handleDeleteAll: position, confirmText, rows
  editDelete      \* the run of EditLeadDialog.handleDelete: position, rows

layoutVars ==
  <<columnWidths, minimizedColumns, maximizedColumn, resizing, pointerWidth>>
prefVars == <<prefLoad, prefStore, prefSaves>>
filterVars ==
  <<searchTerm, selectedProductType, selectedStatus, showMissingPaymentOnly>>
viewVars == <<layoutVars, prefVars, filterVars, rendered>>
runVars == <<restore, deleteAll, editDelete>>

vars ==
  <<remote, trash, notes, leads, loads, updates, toast, activeId, over,
    selectionMode, selectedLeads, bulk, gateLead, gateTarget, gateResult,
    viewVars, runVars>>

storeVars == <<remote, trash, notes>>
dragVars == <<activeId, over>>
selectVars == <<selectionMode, selectedLeads>>
gateVars == <<gateLead, gateTarget, gateResult>>

\* ------------------------------------------------------------------------
\* Helpers
\* ------------------------------------------------------------------------

Range(s) == {s[k] : k \in 1..Len(s)}

RemoveAt(s, k) == [j \in 1..(Len(s) - 1) |-> IF j < k THEN s[j] ELSE s[j + 1]]

\* a row of the leads table (Board.tsx:43-60, the fields the board logic reads)
LeadRow(i, st, pt, dm) ==
  [id |-> i, status |-> st, payment_type |-> pt, delivery_method |-> dm,
   order_id |-> seedOrderId[i], lead_items |-> seedItems[i]]

\* BulkActionsBar.tsx:35: no handleBulkDelete is running (isDeleting = false)
BulkIdle == [pc |-> "idle", ids |-> {}, rows |-> <<>>]

\* the gate has been given no lead
NoGateLead ==
  [id |-> None, status |-> "leads", payment_type |-> None,
   delivery_method |-> None, order_id |-> <<>>, lead_items |-> <<>>]

\* Board.tsx:140-146: select * from leads order by created_at desc
Query(r) ==
  LET present == SelectSeq(newestFirst, LAMBDA i : i \in DOMAIN r)
  IN  [k \in 1..Len(present) |-> r[present[k]]]

\* leads.find((l) => l.id === id) as the index of the first match, 0 if none
FindLead(ls, i) ==
  IF \E k \in 1..Len(ls) : ls[k].id = i
    THEN CHOOSE k \in 1..Len(ls) :
           /\ ls[k].id = i
           /\ \A j \in 1..(k - 1) : ls[j].id # i
    ELSE 0

LeadIdsOf(ls) == {ls[k].id : k \in 1..Len(ls)}

\* ------------------------------------------------------------------------
\* Search and filters (Board.tsx:292-322)
\* ------------------------------------------------------------------------

\* String.prototype.toLowerCase, one character (a string is modelled as the
\* sequence of its characters)
toLowerCaseChar(c) ==
  CASE c = "A" -> "a"
    [] c = "B" -> "b"
    [] c = "F" -> "f"
    [] c = "L" -> "l"
    [] c = "P" -> "p"
    [] c = "T" -> "t"
    [] OTHER -> c

toLowerCase(str) == [k \in 1..Len(str) |-> toLowerCaseChar(str[k])]

\* String.prototype.includes
includes(str, part) ==
  \E k \in 0..(Len(str) - Len(part)) : SubSeq(str, k + 1, k + Len(part)) = part

\* Board.tsx:295-299
matchesSearch(lead, term) ==
  \/ term = <<>>
  \/ includes(toLowerCase(lead.customer_name), toLowerCase(term))
  \/ includes(toLowerCase(lead.order_id), toLowerCase(term))
  \/ includes(lead.customer_phone, term)

\* Board.tsx:301-303; lead_items is the array the select of fetchLeads
\* embeds (Board.tsx:142-145), empty for a lead without items
matchesProductType(lead, productType) ==
  \/ productType = "all"
  \/ \E k \in 1..Len(lead.lead_items) :
       lead.lead_items[k].product_type = productType

\* Board.tsx:305-306
matchesStatus(lead, status) == status = "all" \/ lead.status = status

\* Board.tsx:308, 319
needsPaymentInfo(lead) ==
  lead.status \in {"payment_done", "production", "delivered"}

missingPaymentInfo_PaymentOnly(lead) ==
  needsPaymentInfo(lead) /\ lead.payment_type = None

\* Board.tsx:309, 320
missingPaymentInfo(lead) ==
  needsPaymentInfo(lead)
  /\ (lead.payment_type = None \/ lead.delivery_method = None)

\* Board.tsx:310
matchesPaymentFilter(lead, missingOnly) ==
  ~missingOnly \/ missingPaymentInfo(lead)

filteredLeads_AnyStatus(ls, term, productType, status, missingOnly) ==
  SelectSeq(ls, LAMBDA lead :
    /\ matchesSearch(lead, term)
    /\ matchesProductType(lead, productType)
    /\ matchesPaymentFilter(lead, missingOnly))

\* Board.tsx:293-314
filteredLeads(ls, term, productType, status, missingOnly) ==
  SelectSeq(ls, LAMBDA lead :
    /\ matchesSearch(lead, term)
    /\ matchesProductType(lead, productType)
    /\ matchesStatus(lead, status)
    /\ matchesPaymentFilter(lead, missingOnly))

\* Board.tsx:317-322
missingPaymentInfoCount(ls) ==
  Len(SelectSeq(ls, LAMBDA lead : missingPaymentInfo(lead)))

\* the two values a render derives from the collection and the filter state
render(ls, term, productType, status, missingOnly) ==
  [filteredLeads |-> filteredLeads(ls, term, productType, status, missingOnly),
   missingPaymentInfoCount |-> missingPaymentInfoCount(ls)]

\* Board.tsx:82, 364: the search box
SetSearchTerm(term) ==
  /\ term # searchTerm
  /\ searchTerm' = term
  /\ rendered' = render(leads, term, selectedProductType, selectedStatus,
                        showMissingPaymentOnly)
  /\ UNCHANGED <<storeVars, leads, loads, updates, toast, dragVars,
                 selectVars, bulk, gateVars, runVars, layoutVars, prefVars,
                 selectedProductType, selectedStatus, showMissingPaymentOnly>>

\* Board.tsx:83, 366: the product-type select
SetSelectedProductType(productType) ==
  /\ productType # selectedProductType
  /\ selectedProductType' = productType
  /\ rendered' = render(leads, searchTerm, productType, selectedStatus,
                        showMissingPaymentOnly)
  /\ UNCHANGED <<storeVars, leads, loads, updates, toast, dragVars,
                 selectVars, bulk, gateVars, runVars, layoutVars, prefVars,
                 searchTerm, selectedStatus, showMissingPaymentOnly>>

\* Board.tsx:84, 368: the status select
SetSelectedStatus(status) ==
  /\ status # selectedStatus
  /\ selectedStatus' = status
  /\ rendered' = render(leads, searchTerm, selectedProductType, status,
                        showMissingPaymentOnly)
  /\ UNCHANGED <<storeVars, leads, loads, updates, toast, dragVars,
                 selectVars, bulk, gateVars, runVars, layoutVars, prefVars,
                 searchTerm, selectedProductType, showMissingPaymentOnly>>

\* Board.tsx:374
ToggleMissingPayment ==
  /\ showMissingPaymentOnly' = ~showMissingPaymentOnly
  /\ rendered' = render(leads, searchTerm, selectedProductType,
                        selectedStatus, ~showMissingPaymentOnly)
  /\ UNCHANGED <<storeVars, leads, loads, updates, toast, dragVars,
                 selectVars, bulk, gateVars, runVars, layoutVars, prefVars,
                 searchTerm, selectedProductType, selectedStatus>>

\* Board.tsx:240-245
HandleClearFilters ==
  /\ <<searchTerm, selectedProductType, selectedStatus,
       showMissingPaymentOnly>> # <<<<>>, "all", "all", FALSE>>
  /\ searchTerm' = <<>>
  /\ selectedProductType' = "all"
  /\ selectedStatus' = "all"
  /\ showMissingPaymentOnly' = FALSE
  /\ rendered' = render(leads, <<>>, "all", "all", FALSE)
  /\ UNCHANGED <<storeVars, leads, loads, updates, toast, dragVars,
                 selectVars, bulk, gateVars, runVars, layoutVars, prefVars>>

\* ------------------------------------------------------------------------
\* Validation rule (Board.tsx:207-211)
\* ------------------------------------------------------------------------

canTransition_OnlyProduction(lead, newStatus) ==
  ~(newStatus = "production" /\ lead.payment_type = None)

canTransition_OnlyDelivered(lead, newStatus) ==
  ~(newStatus = "delivered" /\ lead.payment_type = None)

canTransition_AlsoDelivery(lead, newStatus) ==
  ~((newStatus = "production" \/ newStatus = "delivered")
    /\ (lead.payment_type = None \/ lead.delivery_method = None))

\* TRUE when the drag may proceed, FALSE when it is rejected with a notice
canTransition(lead, newStatus) ==
  ~((newStatus = "production" \/ newStatus = "delivered")
    /\ lead.payment_type = None)

\* ------------------------------------------------------------------------
\* fetchLeads (Board.tsx:139-154) and the subscription (Board.tsx:156-175)
\* ------------------------------------------------------------------------

fetchLeads_None(ls) == ls

\* the request of fetchLeads leaves the client
fetchLeads(ls) == Append(ls, [phase |-> "sent", data |-> <<>>])

\* the store answers request k: the rows as they are now, or an error
LoadServe(k, ok) ==
  /\ k \in 1..Len(loads)
  /\ loads[k].phase = "sent"
  /\ loads' = [loads EXCEPT ![k] =
                 IF ok THEN [phase |-> "data", data |-> Query(remote)]
                       ELSE [phase |-> "error", data |-> <<>>]]
  /\ UNCHANGED <<storeVars, leads, updates, toast, dragVars, selectVars,
                 bulk, gateVars, runVars, viewVars>>

\* Board.tsx:148-153 on the response of request k
applyLoad_ClearOnError(resp, ls) ==
  IF resp.phase = "error" THEN <<>> ELSE resp.data

applyLoad_Merge(resp, ls) ==
  IF resp.phase = "error" THEN ls
  ELSE ls \o SelectSeq(resp.data, LAMBDA l : l.id \notin LeadIdsOf(ls))

applyLoad(resp, ls) == IF resp.phase = "error" THEN ls ELSE resp.data

LoadComplete(k) ==
  /\ k \in 1..Len(loads)
  /\ loads[k].phase # "sent"
  /\ leads' = applyLoad(loads[k], leads)
  /\ toast' = IF loads[k].phase = "error" THEN ToastFetchFailed ELSE toast
  /\ loads' = RemoveAt(loads, k)
  /\ rendered' = render(leads', searchTerm, selectedProductType,
                        selectedStatus, showMissingPaymentOnly)
  /\ UNCHANGED <<storeVars, updates, dragVars, selectVars, bulk, gateVars, runVars,
                 layoutVars, prefVars, filterVars>>

\* Board.tsx:166-168: a change notification arrives
SubscriptionNotify ==
  /\ notes > 0
  /\ Len(loads) < MaxInFlight
  /\ notes' = notes - 1
  /\ loads' = fetchLeads(loads)
  /\ UNCHANGED <<remote, trash, leads, updates, toast, dragVars, selectVars,
                 bulk, gateVars, runVars, viewVars>>

\* ------------------------------------------------------------------------
\* Drag and drop (Board.tsx:177-232)
\* ------------------------------------------------------------------------

\* Board.tsx:177-179
HandleDragStart(i) ==
  /\ activeId = None
  /\ i \in LeadIdsOf(leads)
  /\ activeId' = i
  /\ over' = None
  /\ UNCHANGED <<storeVars, leads, loads, updates, toast, selectVars, bulk,
                 gateVars, runVars, viewVars>>

\* the dragged card moves over droppable x (a column or a card) or off all
DragOver(x) ==
  /\ activeId # None
  /\ over # x
  /\ over' = x
  /\ UNCHANGED <<storeVars, leads, loads, updates, toast, activeId,
                 selectVars, bulk, gateVars, runVars, viewVars>>

resolveTarget_ColumnsOnly(ov, ls) == IF ov \in validStatuses THEN ov ELSE None

\* Board.tsx:190-202: the stage the drop stands for, None when there is none
resolveTarget(ov, ls) ==
  IF ov \in validStatuses THEN ov
  ELSE IF FindLead(ls, ov) = 0 THEN None
  ELSE ls[FindLead(ls, ov)].status

dragIgnored_DifferentOnly(ov, ls, leadId) ==
  \/ ov = None
  \/ resolveTarget(ov, ls) = None
  \/ FindLead(ls, leadId) = 0

\* Board.tsx:185-205: the drag ends without a transition
dragIgnored(ov, ls, leadId) ==
  \/ ov = None
  \/ resolveTarget(ov, ls) = None
  \/ FindLead(ls, leadId) = 0
  \/ /\ FindLead(ls, leadId) # 0
     /\ ls[FindLead(ls, leadId)].status = resolveTarget(ov, ls)

optimisticUpdate_All(ls, leadId, newStatus) ==
  [k \in 1..Len(ls) |-> [ls[k] EXCEPT !.status = newStatus]]

optimisticUpdate_None(ls, leadId, newStatus) == ls

\* Board.tsx:214-216
optimisticUpdate(ls, leadId, newStatus) ==
  [k \in 1..Len(ls) |->
     IF ls[k].id = leadId THEN [ls[k] EXCEPT !.status = newStatus] ELSE ls[k]]

\* Board.tsx:219-222: update({ status: newStatus }).eq("id", leadId)
statusUpdate(leadId, newStatus) ==
  [id |-> leadId, fields |-> [status |-> newStatus], phase |-> "sent"]

\* Board.tsx:183-205
DragEndIgnored ==
  /\ activeId # None
  /\ dragIgnored(over, leads, activeId)
  /\ activeId' = None
  /\ over' = None
  /\ UNCHANGED <<storeVars, leads, loads, updates, toast, selectVars, bulk,
                 gateVars, runVars, viewVars>>

\* Board.tsx:207-211
DragEndRejected ==
  /\ activeId # None
  /\ ~dragIgnored(over, leads, activeId)
  /\ ~canTransition(leads[FindLead(leads, activeId)],
                    resolveTarget(over, leads))
  /\ toast' = ToastPaymentRequired(resolveTarget(over, leads))
  /\ activeId' = None
  /\ over' = None
  /\ UNCHANGED <<storeVars, leads, loads, updates, selectVars, bulk,
                 gateVars, runVars, viewVars>>

\* Board.tsx:213-222, up to the await of the update
DragEndAccepted ==
  /\ activeId # None
  /\ ~dragIgnored(over, leads, activeId)
  /\ canTransition(leads[FindLead(leads, activeId)],
                   resolveTarget(over, leads))
  /\ Len(updates) < MaxUpdates
  /\ leads' = optimisticUpdate(leads, activeId, resolveTarget(over, leads))
  /\ updates' = Append(updates,
                       statusUpdate(activeId, resolveTarget(over, leads)))
  /\ activeId' = None
  /\ over' = None
  /\ rendered' = render(leads', searchTerm, selectedProductType,
                        selectedStatus, showMissingPaymentOnly)
  /\ UNCHANGED <<storeVars, loads, toast, selectVars, bulk, gateVars, runVars,
                 layoutVars, prefVars, filterVars>>

\* the store executes update k, or fails it
UpdateServe(k, ok) ==
  /\ k \in 1..Len(updates)
  /\ updates[k].phase = "sent"
  /\ updates' = [updates EXCEPT ![k].phase = IF ok THEN "ok" ELSE "error"]
  /\ IF ok /\ updates[k].id \in DOMAIN remote
       THEN /\ notes < MaxNotes
            /\ remote' = [remote EXCEPT ![updates[k].id].status =
                                          updates[k].fields.status]
            /\ notes' = notes + 1
       ELSE UNCHANGED <<remote, notes>>
  /\ UNCHANGED <<trash, leads, loads, toast, dragVars, selectVars, bulk,
                 gateVars, runVars, viewVars>>

afterUpdateError_NoLoad(ls) == ls

\* Board.tsx:224-228: the requests in flight after a failed update
afterUpdateError(ls) == fetchLeads(ls)

\* Board.tsx:224-231 on the response of update k
UpdateComplete(k) ==
  /\ k \in 1..Len(updates)
  /\ updates[k].phase # "sent"
  /\ IF updates[k].phase = "error"
       THEN /\ Len(loads) < MaxInFlight
            /\ toast' = ToastUpdateFailed
            /\ loads' = afterUpdateError(loads)
       ELSE /\ toast' = ToastUpdated
            /\ UNCHANGED loads
  /\ updates' = RemoveAt(updates, k)
  /\ UNCHANGED <<storeVars, leads, dragVars, selectVars, bulk, gateVars, runVars,
                 viewVars>>

\* another client moves lead i to stage st
OtherUpdate(i, st) ==
  /\ i \in DOMAIN remote
  /\ remote[i].status # st
  /\ notes < MaxNotes
  /\ remote' = [remote EXCEPT ![i].status = st]
  /\ notes' = notes + 1
  /\ UNCHANGED <<trash, leads, loads, updates, toast, dragVars, selectVars,
                 bulk, gateVars, runVars, viewVars>>

\* ------------------------------------------------------------------------
\* Selection (Board.tsx:278-290, 331-341)
\* ------------------------------------------------------------------------

ToggleSelectionMode_KeepSelection ==
  /\ selectionMode' = ~selectionMode
  /\ UNCHANGED selectedLeads
  /\ UNCHANGED <<storeVars, leads, loads, updates, toast, dragVars, bulk,
                 gateVars, runVars, viewVars>>

\* Board.tsx:333-340, the Select Leads / Exit Selection button
ToggleSelectionMode ==
  /\ selectionMode' = ~selectionMode
  /\ selectedLeads' = IF selectionMode THEN <<>> ELSE selectedLeads
  /\ UNCHANGED <<storeVars, leads, loads, updates, toast, dragVars, bulk,
                 gateVars, runVars, viewVars>>

\* Board.tsx:280-284
handleLeadSelect(prev, leadId, selected) ==
  IF selected THEN Append(prev, leadId)
  ELSE SelectSeq(prev, LAMBDA id : id # leadId)

\* LeadCard.tsx:57-64: the checkbox of a rendered card reports its new state
HandleLeadSelect(i) ==
  /\ selectionMode
  /\ i \in LeadIdsOf(leads)
  /\ selectedLeads' =
       handleLeadSelect(selectedLeads, i, i \notin Range(selectedLeads))
  /\ UNCHANGED <<storeVars, leads, loads, updates, toast, dragVars,
                 selectionMode, bulk, gateVars, runVars, viewVars>>

\* Board.tsx:278-285: handleLeadSelect called with any arguments for a
\* rendered card
CallHandleLeadSelect(i, selected) ==
  /\ selectionMode
  /\ i \in LeadIdsOf(leads)
  /\ Len(selectedLeads) < MaxSelected
  /\ selectedLeads' = handleLeadSelect(selectedLeads, i, selected)
  /\ UNCHANGED <<storeVars, leads, loads, updates, toast, dragVars,
                 selectionMode, bulk, gateVars, runVars, viewVars>>

\* Board.tsx:287-290, the Clear button of the bar (BulkActionsBar.tsx:37, 118)
HandleClearSelection ==
  /\ selectedLeads # <<>>
  /\ selectedLeads' = <<>>
  /\ selectionMode' = FALSE
  /\ UNCHANGED <<storeVars, leads, loads, updates, toast, dragVars, bulk,
                 gateVars, runVars, viewVars>>

\* ------------------------------------------------------------------------
\* Column layout (Board.tsx:247-276, 383-400; SearchFilters.tsx:206-352)
\* ------------------------------------------------------------------------

\* SearchFilters.tsx:228-229
MIN_WIDTH == 250
MAX_WIDTH == 600

Min(a, b) == IF a < b THEN a ELSE b
Max(a, b) == IF a > b THEN a ELSE b

clampWidth_NoUpperLimit(newWidth) == Max(MIN_WIDTH, newWidth)

\* SearchFilters.tsx:255: Math.max(MIN_WIDTH, Math.min(MAX_WIDTH, newWidth))
clampWidth(newWidth) == Max(MIN_WIDTH, Min(MAX_WIDTH, newWidth))

\* Board.tsx:119-123
defaultWidths == [c \in Range(columns) |-> 320]

\* Board.tsx:248: { ...columnWidths, [id]: width }
withWidth(widths, id, width) ==
  [c \in DOMAIN widths \cup {id} |-> IF c = id THEN width ELSE widths[c]]

\* no width configured for any column (Board.tsx:88)
NoWidths == [c \in {} |-> 320]

\* Board.tsx:135: the preferences object saveUserPreferences upserts, as
\* its keys and the value of its columnWidths key
savedPreferences(widths) == [keys |-> {"columnWidths"}, columnWidths |-> widths]

\* the column default '{}' of preferences
EmptyPreferences == [keys |-> {}, columnWidths |-> NoWidths]

\* no row of user_preferences for the user (maybeSingle gives null); the
\* table is modelled as the sequence of the user's rows, at most one
NoRow == <<>>

isMaximized_AnySet(id, maximized) == maximized # None

\* Board.tsx:395: the isMaximized prop of column id
isMaximized(id, maximized) == maximized = id

\* Board.tsx:394: the isMinimized prop of column id
isMinimized(id, minimized) == id \in minimized

\* Board.tsx:247-251
HandleWidthChange(id, width) ==
  /\ Len(prefSaves) < MaxSaves
  /\ columnWidths' = withWidth(columnWidths, id, width)
  /\ prefSaves' = Append(prefSaves,
                         savedPreferences(withWidth(columnWidths, id, width)))
  /\ UNCHANGED <<storeVars, leads, loads, updates, toast, dragVars,
                 selectVars, bulk, gateVars, runVars, minimizedColumns,
                 maximizedColumn, resizing, prefLoad, prefStore, filterVars,
                 rendered>>

HandleMinimize_KeepMaximized(id) ==
  /\ id \notin minimizedColumns
  /\ minimizedColumns' = minimizedColumns \cup {id}
  /\ UNCHANGED <<storeVars, leads, loads, updates, toast, dragVars,
                 selectVars, bulk, gateVars, runVars, columnWidths, maximizedColumn,
                 resizing, pointerWidth, prefVars, filterVars, rendered>>

\* Board.tsx:253-258
HandleMinimize(id) ==
  /\ id \notin minimizedColumns
  /\ maximizedColumn' = IF maximizedColumn = id THEN None ELSE maximizedColumn
  /\ minimizedColumns' = minimizedColumns \cup {id}
  /\ UNCHANGED <<storeVars, leads, loads, updates, toast, dragVars,
                 selectVars, bulk, gateVars, runVars, columnWidths, resizing,
                 pointerWidth, prefVars, filterVars, rendered>>

HandleMaximize_KeepMinimized(id) ==
  /\ maximizedColumn # id
  /\ UNCHANGED minimizedColumns
  /\ maximizedColumn' = id
  /\ UNCHANGED <<storeVars, leads, loads, updates, toast, dragVars,
                 selectVars, bulk, gateVars, runVars, columnWidths, resizing,
                 pointerWidth, prefVars, filterVars, rendered>>

\* Board.tsx:260-267
HandleMaximize(id) ==
  /\ maximizedColumn # id
  /\ minimizedColumns' = minimizedColumns \ {id}
  /\ maximizedColumn' = id
  /\ UNCHANGED <<storeVars, leads, loads, updates, toast, dragVars,
                 selectVars, bulk, gateVars, runVars, columnWidths, resizing,
                 pointerWidth, prefVars, filterVars, rendered>>

\* Board.tsx:269-276
HandleNormalView(id) ==
  /\ id \in minimizedColumns \/ maximizedColumn # None
  /\ minimizedColumns' = minimizedColumns \ {id}
  /\ maximizedColumn' = None
  /\ UNCHANGED <<storeVars, leads, loads, updates, toast, dragVars,
                 selectVars, bulk, gateVars, runVars, columnWidths, resizing,
                 pointerWidth, prefVars, filterVars, rendered>>

\* SearchFilters.tsx:292-304 with the wiring of Board.tsx:392-393: the one
\* button of the column header, Expand on a minimized column, Minimize else
ColumnButton(id) ==
  /\ resizing = None
  /\ IF isMinimized(id, minimizedColumns)
       THEN HandleNormalView(id)
       ELSE HandleMinimize(id)

\* SearchFilters.tsx:326-337: mousedown on the resize handle, which is
\* rendered when the column is neither minimized nor maximized
ResizeStart(id) ==
  /\ resizing = None
  /\ ~isMinimized(id, minimizedColumns)
  /\ ~isMaximized(id, maximizedColumn)
  /\ resizing' = id
  /\ UNCHANGED <<storeVars, leads, loads, updates, toast, dragVars,
                 selectVars, bulk, gateVars, runVars, columnWidths, minimizedColumns,
                 maximizedColumn, pointerWidth, prefVars, filterVars,
                 rendered>>

\* SearchFilters.tsx:250-258: a mousemove while the handle is held
ResizeMove(newWidth) ==
  /\ resizing # None
  /\ pointerWidth' = newWidth
  /\ HandleWidthChange(resizing, clampWidth(newWidth))

\* SearchFilters.tsx:260-262
ResizeEnd ==
  /\ resizing # None
  /\ resizing' = None
  /\ UNCHANGED <<storeVars, leads, loads, updates, toast, dragVars,
                 selectVars, bulk, gateVars, runVars, columnWidths, minimizedColumns,
                 maximizedColumn, pointerWidth, prefVars, filterVars,
                 rendered>>

\* ------------------------------------------------------------------------
\* Preference Store (Board.tsx:104-137)
\* ------------------------------------------------------------------------

\* the store answers the select of loadUserPreferences, or fails it
PrefLoadServe(ok) ==
  /\ prefLoad.phase = "sent"
  /\ prefLoad' = IF ok THEN [phase |-> "data", data |-> prefStore]
                 ELSE [phase |-> "error", data |-> NoRow]
  /\ UNCHANGED <<storeVars, leads, loads, updates, toast, dragVars,
                 selectVars, bulk, gateVars, runVars, layoutVars, prefStore,
                 prefSaves, filterVars, rendered>>

\* Board.tsx:113-125
applyPreferences(resp, widths) ==
  IF resp.phase = "data" /\ resp.data # NoRow
    THEN IF "columnWidths" \in resp.data[1].preferences.keys
           THEN resp.data[1].preferences.columnWidths
           ELSE widths
    ELSE defaultWidths

\* Board.tsx:113-125 on the response of the select
PrefLoadComplete ==
  /\ prefLoad.phase \in {"data", "error"}
  /\ columnWidths' = applyPreferences(prefLoad, columnWidths)
  /\ prefLoad' = [phase |-> "done", data |-> NoRow]
  /\ UNCHANGED <<storeVars, leads, loads, updates, toast, dragVars,
                 selectVars, bulk, gateVars, runVars, minimizedColumns,
                 maximizedColumn, resizing, pointerWidth, prefStore,
                 prefSaves, filterVars, rendered>>

\* the store executes upsert k, or fails it; saveUserPreferences ignores
\* the outcome (Board.tsx:131-136)
PrefSaveServe(k, ok) ==
  /\ k \in 1..Len(prefSaves)
  /\ prefStore' = IF ok THEN <<[preferences |-> prefSaves[k]]>> ELSE prefStore
  /\ prefSaves' = RemoveAt(prefSaves, k)
  /\ UNCHANGED <<storeVars, leads, loads, updates, toast, dragVars,
                 selectVars, bulk, gateVars, runVars, layoutVars, prefLoad,
                 filterVars, rendered>>

\* ------------------------------------------------------------------------
\* Bulk soft delete (BulkActionsBar.tsx:39-99)
\* ------------------------------------------------------------------------

RECURSIVE BagOfSeq(_)
BagOfSeq(s) ==
  IF s = <<>> THEN EmptyBag ELSE SetToBag({Head(s)}) (+) BagOfSeq(Tail(s))

\* a row of deleted_leads holds a snapshot of lead i
HasSnapshot(t, i) == \E r \in BagToSet(t) : r.lead_id = i

\* BulkActionsBar.tsx:49-51
leadsToDelete(ls, sel) == SelectSeq(ls, LAMBDA lead : lead.id \in Range(sel))

\* BulkActionsBar.tsx:54-71: lead_data carries order_id and status, but
\* neither payment_type nor delivery_method
deletedLeadsData(rows) ==
  [k \in 1..Len(rows) |->
     [lead_id |-> rows[k].id,
      lead_data |-> [order_id |-> rows[k].order_id, status |-> rows[k].status],
      lead_items |-> rows[k].lead_items]]

\* days between deleted_at and restore_deadline of a row of deleted_leads
RESTORE_DAYS == 30

\* the column defaults of deleted_leads: deleted_at is now() and
\* restore_deadline is now() + 30 days of the same statement
insertedSnapshot(row) ==
  [lead_id |-> row.lead_id, lead_data |-> row.lead_data,
   lead_items |-> row.lead_items, restore_days |-> RESTORE_DAYS]

\* insert into deleted_leads of the rows of one request
insertedSnapshots(rows) ==
  BagOfSeq([k \in 1..Len(rows) |-> insertedSnapshot(rows[k])])

\* BulkActionsBar.tsx:83: the ids of .in("id", selectedLeads)
deleteIds(sel) == Range(sel)

\* BulkActionsBar.tsx:39-75: the confirm button, up to the await of the insert
HandleBulkDelete ==
  /\ bulk.pc = "idle"
  /\ selectedLeads # <<>>
  /\ bulk' = [pc |-> "insert_sent",
              ids |-> deleteIds(selectedLeads),
              rows |-> deletedLeadsData(leadsToDelete(leads, selectedLeads))]
  /\ UNCHANGED <<storeVars, leads, loads, updates, toast, dragVars,
                 selectVars, gateVars, runVars, viewVars>>

\* the store executes the insert into deleted_leads, or fails it
BulkInsertServe(ok) ==
  /\ bulk.pc = "insert_sent"
  /\ IF ok
       THEN /\ BagCardinality(trash) + Len(bulk.rows) <= MaxTrash
            /\ trash' = trash (+) insertedSnapshots(bulk.rows)
            /\ bulk' = [bulk EXCEPT !.pc = "insert_ok"]
       ELSE /\ bulk' = [bulk EXCEPT !.pc = "insert_error"]
            /\ UNCHANGED trash
  /\ UNCHANGED <<remote, notes, leads, loads, updates, toast, dragVars,
                 selectVars, gateVars, runVars, viewVars>>

afterInsert_IgnoreError(pc) == "delete_sent"

\* BulkActionsBar.tsx:77-83: where the run goes on the insert's response
afterInsert(pc) == IF pc = "insert_error" THEN "idle" ELSE "delete_sent"

\* BulkActionsBar.tsx:73-83, 93-98 on the response of the insert
BulkInsertResponse ==
  /\ bulk.pc \in {"insert_ok", "insert_error"}
  /\ bulk' = IF afterInsert(bulk.pc) = "idle" THEN BulkIdle
             ELSE [bulk EXCEPT !.pc = afterInsert(bulk.pc)]
  /\ toast' = IF bulk.pc = "insert_error" THEN ToastDeleteFailed ELSE toast
  /\ UNCHANGED <<storeVars, leads, loads, updates, dragVars, selectVars,
                 gateVars, runVars, viewVars>>

\* the store executes the delete on leads, or fails it
BulkDeleteServe(ok) ==
  /\ bulk.pc = "delete_sent"
  /\ IF ok
       THEN /\ notes + Cardinality(bulk.ids \cap DOMAIN remote) <= MaxNotes
            /\ remote' = [i \in DOMAIN remote \ bulk.ids |-> remote[i]]
            /\ notes' = notes + Cardinality(bulk.ids \cap DOMAIN remote)
            /\ bulk' = [bulk EXCEPT !.pc = "delete_ok"]
       ELSE /\ bulk' = [bulk EXCEPT !.pc = "delete_error"]
            /\ UNCHANGED <<remote, notes>>
  /\ UNCHANGED <<trash, leads, loads, updates, toast, dragVars, selectVars,
                 gateVars, runVars, viewVars>>

\* BulkActionsBar.tsx:85-98 on the response of the delete
BulkDeleteResponse ==
  /\ bulk.pc \in {"delete_ok", "delete_error"}
  /\ IF bulk.pc = "delete_ok"
       THEN /\ Len(loads) < MaxInFlight
            /\ toast' = ToastLeadsDeleted
            /\ selectedLeads' = <<>>
            /\ selectionMode' = FALSE
            /\ loads' = fetchLeads(loads)
       ELSE /\ toast' = ToastDeleteFailed
            /\ UNCHANGED <<selectVars, loads>>
  /\ bulk' = BulkIdle
  /\ UNCHANGED <<storeVars, leads, updates, dragVars, gateVars, runVars, viewVars>>

\* ------------------------------------------------------------------------
\* Other clients of the store
\* ------------------------------------------------------------------------

\* another client creates lead i
OtherCreate(i) ==
  /\ i \notin DOMAIN remote
  /\ ~HasSnapshot(trash, i)
  /\ notes < MaxNotes
  /\ remote' = [j \in DOMAIN remote \cup {i} |->
                  IF j = i THEN LeadRow(i, "payment_done", None, None)
                           ELSE remote[j]]
  /\ notes' = notes + 1
  /\ UNCHANGED <<trash, leads, loads, updates, toast, dragVars, selectVars,
                 bulk, gateVars, runVars, viewVars>>

\* another client soft-deletes lead i: snapshot, then delete
OtherSoftDelete(i) ==
  /\ i \in DOMAIN remote
  /\ BagCardinality(trash) < MaxTrash
  /\ notes < MaxNotes
  /\ trash' = trash (+) insertedSnapshots(deletedLeadsData(<<remote[i]>>))
  /\ remote' = [j \in DOMAIN remote \ {i} |-> remote[j]]
  /\ notes' = notes + 1
  /\ UNCHANGED <<leads, loads, updates, toast, dragVars, selectVars, bulk,
                 gateVars, runVars, viewVars>>

\* ------------------------------------------------------------------------
\* Restore from the trash (RestoreLeadsDialog.handleRestore,
\* BulkActionsBar.tsx:222-258)
\* ------------------------------------------------------------------------

clientVars == <<leads, updates, dragVars, selectVars, bulk, gateVars, viewVars>>

\* BulkActionsBar.tsx:251
ToastRestored == "Lead restored successfully"

\* BulkActionsBar.tsx:255
ToastRestoreFailed == "Failed to restore lead"

\* no row of deleted_leads is being restored
NoSnapshot ==
  [lead_id |-> None, lead_data |-> [order_id |-> <<>>, status |-> "leads"],
   lead_items |-> <<>>, restore_days |-> RESTORE_DAYS]

RestoreIdle == [pc |-> "idle", snap |-> NoSnapshot]

\* BulkActionsBar.tsx:227-232: the row { id: lead_id, ...lead_data } as the
\* leads table stores it: a column that lead_data does not carry gets its
\* default, which is NULL for payment_type and delivery_method, and the new
\* lead has no row in lead_items yet
restoredLead(snap) ==
  [id |-> snap.lead_id,
   status |-> snap.lead_data.status,
   payment_type |-> IF "payment_type" \in DOMAIN snap.lead_data
                      THEN snap.lead_data.payment_type ELSE None,
   delivery_method |-> IF "delivery_method" \in DOMAIN snap.lead_data
                         THEN snap.lead_data.delivery_method ELSE None,
   order_id |-> snap.lead_data.order_id,
   lead_items |-> <<>>]

\* the rows of remote with row added under its id
withLead(r, row) ==
  [j \in DOMAIN r \cup {row.id} |-> IF j = row.id THEN row ELSE r[j]]

\* BulkActionsBar.tsx:222-232: the Restore button of a listed snapshot, up
\* to the await of the insert into leads
HandleRestore(s) ==
  /\ restore.pc = "idle"
  /\ s \in BagToSet(trash)
  /\ restore' = [pc |-> "lead_sent", snap |-> s]
  /\ UNCHANGED <<storeVars, loads, toast, deleteAll, editDelete, clientVars>>

\* the store executes the insert into leads, or fails it; an id that is
\* already in the table violates the primary key
RestoreLeadServe(ok) ==
  /\ restore.pc = "lead_sent"
  /\ IF ok /\ restore.snap.lead_id \notin DOMAIN remote
       THEN /\ notes < MaxNotes
            /\ remote' = withLead(remote, restoredLead(restore.snap))
            /\ notes' = notes + 1
            /\ restore' = [restore EXCEPT !.pc = "lead_ok"]
       ELSE /\ restore' = [restore EXCEPT !.pc = "lead_error"]
            /\ UNCHANGED <<remote, notes>>
  /\ UNCHANGED <<trash, loads, toast, deleteAll, editDelete, clientVars>>

restoreNext_IgnoreErrors(pc, snap) ==
  IF pc \in {"lead_ok", "lead_error"} /\ Len(snap.lead_items) > 0
    THEN "items_sent"
    ELSE "delete_sent"

\* BulkActionsBar.tsx:234-249: the request that follows the response of the
\* insert into leads or into lead_items, "idle" when the run ends with it
restoreNext(pc, snap) ==
  IF pc \in {"lead_error", "items_error"} THEN "idle"
  ELSE IF pc = "lead_ok" /\ Len(snap.lead_items) > 0 THEN "items_sent"
  ELSE "delete_sent"

\* BulkActionsBar.tsx:234-249, 254-257 on the response of one of the inserts
RestoreContinue ==
  /\ restore.pc \in {"lead_ok", "lead_error", "items_ok", "items_error"}
  /\ IF restoreNext(restore.pc, restore.snap) = "idle"
       THEN /\ restore' = RestoreIdle
            /\ toast' = ToastRestoreFailed
       ELSE /\ restore' = [restore EXCEPT
                             !.pc = restoreNext(restore.pc, restore.snap)]
            /\ UNCHANGED toast
  /\ UNCHANGED <<storeVars, loads, deleteAll, editDelete, clientVars>>

\* the store executes the insert into lead_items, or fails it; the rows
\* reference the lead (foreign key) and carry their old ids (primary key)
RestoreItemsServe(ok) ==
  /\ restore.pc = "items_sent"
  /\ IF /\ ok
        /\ restore.snap.lead_id \in DOMAIN remote
        /\ remote[restore.snap.lead_id].lead_items = <<>>
       THEN /\ remote' = [remote EXCEPT ![restore.snap.lead_id].lead_items =
                                          restore.snap.lead_items]
            /\ restore' = [restore EXCEPT !.pc = "items_ok"]
       ELSE /\ restore' = [restore EXCEPT !.pc = "items_error"]
            /\ UNCHANGED remote
  /\ UNCHANGED <<trash, notes, loads, toast, deleteAll, editDelete,
                 clientVars>>

\* the rows of deleted_leads without one row equal to snap, if there is one
withoutSnapshot(t, snap) == t (-) SetToBag({snap})

\* the store executes the delete on deleted_leads, or fails it
RestoreDeleteServe(ok) ==
  /\ restore.pc = "delete_sent"
  /\ IF ok
       THEN /\ trash' = withoutSnapshot(trash, restore.snap)
            /\ restore' = [restore EXCEPT !.pc = "delete_ok"]
       ELSE /\ restore' = [restore EXCEPT !.pc = "delete_error"]
            /\ UNCHANGED trash
  /\ UNCHANGED <<remote, notes, loads, toast, deleteAll, editDelete,
                 clientVars>>

\* BulkActionsBar.tsx:249-257 on the response of the delete
RestoreDeleteResponse ==
  /\ restore.pc \in {"delete_ok", "delete_error"}
  /\ IF restore.pc = "delete_ok"
       THEN /\ Len(loads) < MaxInFlight
            /\ toast' = ToastRestored
            /\ loads' = fetchLeads(loads)
       ELSE /\ toast' = ToastRestoreFailed
            /\ UNCHANGED loads
  /\ restore' = RestoreIdle
  /\ UNCHANGED <<storeVars, deleteAll, editDelete, clientVars>>

\* another client restores snapshot s
OtherRestore(s) ==
  /\ s \in BagToSet(trash)
  /\ s.lead_id \notin DOMAIN remote
  /\ notes < MaxNotes
  /\ remote' = withLead(remote, [restoredLead(s) EXCEPT
                                   !.lead_items = s.lead_items])
  /\ trash' = withoutSnapshot(trash, s)
  /\ notes' = notes + 1
  /\ UNCHANGED <<loads, toast, runVars, clientVars>>

\* ------------------------------------------------------------------------
\* Delete all leads (DeleteAllLeadsDialog.tsx:34-106)
\* ------------------------------------------------------------------------

\* DeleteAllLeadsDialog.tsx:38
ToastTypeDelete == "Please type DELETE to confirm"

\* DeleteAllLeadsDialog.tsx:55
ToastNoLeads == "No leads to delete"

\* DeleteAllLeadsDialog.tsx:96
ToastAllDeleted == "all leads deleted (can be restored within 30 days)"

\* what the user may have typed into the confirmation field
ConfirmTexts == {"", "delete", "DELETE"}

DeleteAllIdle == [pc |-> "idle", confirmText |-> "", rows |-> <<>>]

\* DeleteAllLeadsDialog.tsx:61-80 and part_002:726-746: lead_data carries
\* order_id, status, payment_type and delivery_method
deletedLeadData(rows) ==
  [k \in 1..Len(rows) |->
     [lead_id |-> rows[k].id,
      lead_data |-> [order_id |-> rows[k].order_id,
                     status |-> rows[k].status,
                     payment_type |-> rows[k].payment_type,
                     delivery_method |-> rows[k].delivery_method],
      lead_items |-> rows[k].lead_items]]

\* DeleteAllLeadsDialog.tsx:136-137: the confirmation field
SetConfirmText(text) ==
  /\ deleteAll.pc = "idle"
  /\ deleteAll.confirmText # text
  /\ deleteAll' = [deleteAll EXCEPT !.confirmText = text]
  /\ UNCHANGED <<storeVars, loads, toast, restore, editDelete, clientVars>>

\* DeleteAllLeadsDialog.tsx:34-52: the handler, up to the await of the fetch
HandleDeleteAll ==
  /\ deleteAll.pc = "idle"
  /\ IF deleteAll.confirmText # "DELETE"
       THEN /\ toast' = ToastTypeDelete
            /\ UNCHANGED deleteAll
       ELSE /\ deleteAll' = [deleteAll EXCEPT !.pc = "fetch_sent"]
            /\ UNCHANGED toast
  /\ UNCHANGED <<storeVars, loads, restore, editDelete, clientVars>>

\* the store answers the select of all leads with their items, or fails it
DeleteAllFetchServe(ok) ==
  /\ deleteAll.pc = "fetch_sent"
  /\ deleteAll' = IF ok
                    THEN [deleteAll EXCEPT !.pc = "fetch_ok",
                                           !.rows = Query(remote)]
                    ELSE [deleteAll EXCEPT !.pc = "fetch_error"]
  /\ UNCHANGED <<storeVars, loads, toast, restore, editDelete, clientVars>>

\* DeleteAllLeadsDialog.tsx:52-86: what handleDeleteAll does on the response
\* of the fetch or of the insert, "idle" when the run ends with it
deleteAllNext(pc, rows) ==
  IF pc \in {"fetch_error", "insert_error"} THEN "idle"
  ELSE IF pc = "fetch_ok" /\ Len(rows) = 0 THEN "idle"
  ELSE IF pc = "fetch_ok" THEN "insert_sent"
  ELSE "delete_sent"

\* DeleteAllLeadsDialog.tsx:52-94, 100-105 on the response of the fetch or
\* of the insert
DeleteAllContinue ==
  /\ deleteAll.pc \in {"fetch_ok", "fetch_error", "insert_ok", "insert_error"}
  /\ IF deleteAllNext(deleteAll.pc, deleteAll.rows) = "idle"
       THEN /\ deleteAll' = [DeleteAllIdle EXCEPT
                               !.confirmText = deleteAll.confirmText]
            /\ toast' = IF deleteAll.pc = "fetch_ok" THEN ToastNoLeads
                        ELSE ToastDeleteFailed
       ELSE /\ deleteAll' =
                 [deleteAll EXCEPT
                    !.pc = deleteAllNext(deleteAll.pc, deleteAll.rows),
                    !.rows = IF deleteAll.pc = "fetch_ok"
                               THEN deletedLeadData(deleteAll.rows)
                               ELSE deleteAll.rows]
            /\ UNCHANGED toast
  /\ UNCHANGED <<storeVars, loads, restore, editDelete, clientVars>>

\* the store executes the insert into deleted_leads, or fails it
DeleteAllInsertServe(ok) ==
  /\ deleteAll.pc = "insert_sent"
  /\ IF ok
       THEN /\ BagCardinality(trash) + Len(deleteAll.rows) <= MaxTrash
            /\ trash' = trash (+) insertedSnapshots(deleteAll.rows)
            /\ deleteAll' = [deleteAll EXCEPT !.pc = "insert_ok"]
       ELSE /\ deleteAll' = [deleteAll EXCEPT !.pc = "insert_error"]
            /\ UNCHANGED trash
  /\ UNCHANGED <<remote, notes, loads, toast, restore, editDelete,
                 clientVars>>

\* DeleteAllLeadsDialog.tsx:89-92: the ids that .neq('id', '0000...') matches:
\* every row of the table at the time the delete runs
deleteAllMatches(r, rows) == DOMAIN r

\* the store executes the delete on leads, or fails it
DeleteAllDeleteServe(ok) ==
  /\ deleteAll.pc = "delete_sent"
  /\ IF ok
       THEN /\ notes + Cardinality(deleteAllMatches(remote, deleteAll.rows))
                 <= MaxNotes
            /\ remote' = [i \in DOMAIN remote \
                                 deleteAllMatches(remote, deleteAll.rows)
                            |-> remote[i]]
            /\ notes' = notes
                          + Cardinality(deleteAllMatches(remote,
                                                         deleteAll.rows))
            /\ deleteAll' = [deleteAll EXCEPT !.pc = "delete_ok"]
       ELSE /\ deleteAll' = [deleteAll EXCEPT !.pc = "delete_error"]
            /\ UNCHANGED <<remote, notes>>
  /\ UNCHANGED <<trash, loads, toast, restore, editDelete, clientVars>>

\* DeleteAllLeadsDialog.tsx:94-105 on the response of the delete
DeleteAllDeleteResponse ==
  /\ deleteAll.pc \in {"delete_ok", "delete_error"}
  /\ IF deleteAll.pc = "delete_ok"
       THEN /\ Len(loads) < MaxInFlight
            /\ toast' = ToastAllDeleted
            /\ loads' = fetchLeads(loads)
            /\ deleteAll' = DeleteAllIdle
       ELSE /\ toast' = ToastDeleteFailed
            /\ deleteAll' = [DeleteAllIdle EXCEPT
                               !.confirmText = deleteAll.confirmText]
            /\ UNCHANGED loads
  /\ UNCHANGED <<storeVars, restore, editDelete, clientVars>>

\* ------------------------------------------------------------------------
\* Delete of one lead (EditLeadDialog.handleDelete, part_002:721-767)
\* ------------------------------------------------------------------------

\* part_002:759
ToastLeadDeleted == "Lead deleted (can be restored within 30 days)"

\* part_002:764
ToastLeadDeleteFailed == "Failed to delete lead"

EditDeleteIdle == [pc |-> "idle", rows |-> <<>>]

\* part_002:721-748: the confirmed Delete of the dialog opened on the card
\* of lead i, up to the await of the insert
HandleDelete(i) ==
  /\ editDelete.pc = "idle"
  /\ i \in LeadIdsOf(leads)
  /\ editDelete' = [pc |-> "insert_sent",
                    rows |-> deletedLeadData(<<leads[FindLead(leads, i)]>>)]
  /\ UNCHANGED <<storeVars, loads, toast, restore, deleteAll, clientVars>>

\* the store executes the insert into deleted_leads, or fails it
EditInsertServe(ok) ==
  /\ editDelete.pc = "insert_sent"
  /\ IF ok
       THEN /\ BagCardinality(trash) + Len(editDelete.rows) <= MaxTrash
            /\ trash' = trash (+) insertedSnapshots(editDelete.rows)
            /\ editDelete' = [editDelete EXCEPT !.pc = "insert_ok"]
       ELSE /\ editDelete' = [editDelete EXCEPT !.pc = "insert_error"]
            /\ UNCHANGED trash
  /\ UNCHANGED <<remote, notes, loads, toast, restore, deleteAll,
                 clientVars>>

\* part_002:748-755, 763-766 on the response of the insert
EditInsertResponse ==
  /\ editDelete.pc \in {"insert_ok", "insert_error"}
  /\ IF editDelete.pc = "insert_ok"
       THEN /\ editDelete' = [editDelete EXCEPT !.pc = "delete_sent"]
            /\ UNCHANGED toast
       ELSE /\ editDelete' = EditDeleteIdle
            /\ toast' = ToastLeadDeleteFailed
  /\ UNCHANGED <<storeVars, loads, restore, deleteAll, clientVars>>

\* the store executes the delete on leads, or fails it
EditDeleteServe(ok) ==
  /\ editDelete.pc = "delete_sent"
  /\ IF ok /\ editDelete.rows[1].lead_id \in DOMAIN remote
       THEN /\ notes < MaxNotes
            /\ remote' = [i \in DOMAIN remote \ {editDelete.rows[1].lead_id}
                            |-> remote[i]]
            /\ notes' = notes + 1
            /\ editDelete' = [editDelete EXCEPT !.pc = "delete_ok"]
       ELSE /\ editDelete' =
                 [editDelete EXCEPT
                    !.pc = IF ok THEN "delete_ok" ELSE "delete_error"]
            /\ UNCHANGED <<remote, notes>>
  /\ UNCHANGED <<trash, loads, toast, restore, deleteAll, clientVars>>

\* part_002:757-766 on the response of the delete
EditDeleteResponse ==
  /\ editDelete.pc \in {"delete_ok", "delete_error"}
  /\ IF editDelete.pc = "delete_ok"
       THEN /\ Len(loads) < MaxInFlight
            /\ toast' = ToastLeadDeleted
            /\ loads' = fetchLeads(loads)
       ELSE /\ toast' = ToastLeadDeleteFailed
            /\ UNCHANGED loads
  /\ editDelete' = EditDeleteIdle
  /\ UNCHANGED <<storeVars, restore, deleteAll, clientVars>>

\* ------------------------------------------------------------------------
\* The board under drags, loads, notifications and other clients' updates
\* ------------------------------------------------------------------------

\* Board.tsx:74-102: the state after the first render and its mount effect,
\* which issues the first fetchLeads and subscribes
ClientInit ==
  /\ leads = <<>>
  /\ loads = fetchLeads(<<>>)
  /\ updates = <<>>
  /\ toast = NoToast
  /\ activeId = None
  /\ over = None
  /\ selectionMode = FALSE
  /\ selectedLeads = <<>>
  /\ bulk = BulkIdle
  /\ notes = 0
  /\ columnWidths = NoWidths
  /\ minimizedColumns = {}
  /\ maximizedColumn = None
  /\ resizing = None
  /\ pointerWidth = 0
  /\ prefLoad = [phase |-> "sent", data |-> NoRow]
  /\ prefSaves = <<>>
  /\ searchTerm = <<>>
  /\ selectedProductType = "all"
  /\ selectedStatus = "all"
  /\ showMissingPaymentOnly = FALSE
  /\ rendered = render(<<>>, <<>>, "all", "all", FALSE)
  /\ restore = RestoreIdle
  /\ deleteAll = DeleteAllIdle
  /\ editDelete = EditDeleteIdle

GateIdle ==
  /\ gateLead = NoGateLead
  /\ gateTarget = None
  /\ gateResult = "idle"

Init ==
  /\ ClientInit
  /\ GateIdle
  /\ remote \in {[i \in LeadIds |-> LeadRow(i, st[i], seedPayment[i], None)] :
                   st \in [LeadIds -> BoardStages]}
  /\ trash = EmptyBag
  /\ prefStore = NoRow

Next ==
  \/ \E k \in 1..MaxInFlight, ok \in BOOLEAN : LoadServe(k, ok)
  \/ \E k \in 1..MaxInFlight : LoadComplete(k)
  \/ SubscriptionNotify
  \/ \E i \in LeadIds : HandleDragStart(i)
  \/ \E x \in BoardStages \cup LeadIds \cup {None} : DragOver(x)
  \/ DragEndIgnored
  \/ DragEndRejected
  \/ DragEndAccepted
  \/ \E k \in 1..MaxUpdates, ok \in BOOLEAN : UpdateServe(k, ok)
  \/ \E k \in 1..MaxUpdates : UpdateComplete(k)
  \/ \E i \in LeadIds, st \in BoardStages : OtherUpdate(i, st)

Spec == Init /\ [][Next]_vars

\* the collection under loads, notifications and other clients' updates only
NextLoads ==
  \/ \E k \in 1..MaxInFlight, ok \in BOOLEAN : LoadServe(k, ok)
  \/ \E k \in 1..MaxInFlight : LoadComplete(k)
  \/ SubscriptionNotify
  \/ \E i \in LeadIds, st \in BoardStages : OtherUpdate(i, st)

SpecLoads == Init /\ [][NextLoads]_vars

\* the collection when every response is handled in the order its request
\* was issued, under other clients' updates, creations and soft deletes
NextInOrder ==
  \/ \E k \in 1..MaxInFlight, ok \in BOOLEAN : LoadServe(k, ok)
  \/ LoadComplete(1)
  \/ SubscriptionNotify
  \/ \E i \in LeadIds, st \in BoardStages : OtherUpdate(i, st)
  \/ \E i \in LeadIds : OtherCreate(i)
  \/ \E i \in LeadIds : OtherSoftDelete(i)

\* the same board when the store fails no request
NextReliable ==
  \/ \E k \in 1..MaxInFlight : LoadServe(k, TRUE)
  \/ \E k \in 1..MaxInFlight : LoadComplete(k)
  \/ SubscriptionNotify
  \/ \E i \in LeadIds : HandleDragStart(i)
  \/ \E x \in BoardStages \cup LeadIds \cup {None} : DragOver(x)
  \/ DragEndIgnored
  \/ DragEndRejected
  \/ DragEndAccepted
  \/ \E k \in 1..MaxUpdates : UpdateServe(k, TRUE)
  \/ \E k \in 1..MaxUpdates : UpdateComplete(k)
  \/ \E i \in LeadIds, st \in BoardStages : OtherUpdate(i, st)

SpecReliable == Init /\ [][NextReliable]_vars

\* ------------------------------------------------------------------------
\* The board under selection, bulk soft delete, loads, notifications and
\* other clients' creations, soft deletes and restores
\* ------------------------------------------------------------------------

InitBulk ==
  /\ ClientInit
  /\ GateIdle
  /\ remote \in {[i \in S |-> LeadRow(i, "payment_done", None, None)] :
                   S \in SUBSET LeadIds}
  /\ trash = EmptyBag
  /\ prefStore = NoRow

NextBulk ==
  \/ \E k \in 1..MaxInFlight, ok \in BOOLEAN : LoadServe(k, ok)
  \/ \E k \in 1..MaxInFlight : LoadComplete(k)
  \/ SubscriptionNotify
  \/ ToggleSelectionMode
  \/ \E i \in LeadIds : HandleLeadSelect(i)
  \/ HandleClearSelection
  \/ HandleBulkDelete
  \/ \E ok \in BOOLEAN : BulkInsertServe(ok)
  \/ BulkInsertResponse
  \/ \E ok \in BOOLEAN : BulkDeleteServe(ok)
  \/ BulkDeleteResponse
  \/ \E i \in LeadIds : OtherCreate(i)
  \/ \E i \in LeadIds : OtherSoftDelete(i)

SpecBulk == InitBulk /\ [][NextBulk]_vars

SpecInOrder == InitBulk /\ [][NextInOrder]_vars

\* ------------------------------------------------------------------------
\* The transition gate on its own, over every lead and every target stage
\* ------------------------------------------------------------------------

GateLeads ==
  {LeadRow("L1", st, pt, dm) :
     st \in validStatuses,
     pt \in PaymentType \cup {None},
     dm \in DeliveryMethod \cup {None}}

\* Board.tsx:207-211 applied to gateLead and gateTarget
GateEvaluate ==
  /\ gateResult = "idle"
  /\ gateResult' = IF canTransition(gateLead, gateTarget) THEN "Allowed"
                   ELSE "Rejected"
  /\ UNCHANGED <<storeVars, leads, loads, updates, toast, dragVars,
                 selectVars, bulk, gateLead, gateTarget, runVars,
                 viewVars>>

InitGate ==
  /\ ClientInit
  /\ remote = [i \in {} |-> NoGateLead]
  /\ trash = EmptyBag
  /\ prefStore = NoRow
  /\ gateLead \in GateLeads
  /\ gateTarget \in validStatuses
  /\ gateResult = "idle"

NextGate == GateEvaluate

SpecGate == InitGate /\ [][NextGate]_vars

\* ------------------------------------------------------------------------
\* The layout handlers of Board.tsx:253-276, called in any order on any
\* column
\* ------------------------------------------------------------------------

\* what user_preferences may hold for the user at mount: no row, a row with
\* the column default '{}', or widths saved by an earlier session
StoredPreferences ==
  {NoRow,
   <<[preferences |-> EmptyPreferences]>>,
   <<[preferences |->
        savedPreferences(withWidth(defaultWidths, "production", 400))]>>}

InitLayout ==
  /\ ClientInit
  /\ GateIdle
  /\ remote = [i \in {} |-> NoGateLead]
  /\ trash = EmptyBag
  /\ prefStore \in StoredPreferences

NextLayoutHandlers ==
  \/ \E id \in Range(columns) : HandleMinimize(id)
  \/ \E id \in Range(columns) : HandleMaximize(id)
  \/ \E id \in Range(columns) : HandleNormalView(id)

SpecLayoutHandlers == InitLayout /\ [][NextLayoutHandlers]_vars

\* ------------------------------------------------------------------------
\* The layout as the rendered board drives it: the header button and the
\* resize handle of each column, and the Preference Store
\* ------------------------------------------------------------------------

NextBoardLayout ==
  \/ \E id \in BoardStages : ColumnButton(id)
  \/ \E id \in BoardStages : ResizeStart(id)
  \/ \E newWidth \in PointerWidths : ResizeMove(newWidth)
  \/ ResizeEnd
  \/ \E ok \in BOOLEAN : PrefLoadServe(ok)
  \/ PrefLoadComplete
  \/ \E k \in 1..MaxSaves, ok \in BOOLEAN : PrefSaveServe(k, ok)

SpecBoardLayout == InitLayout /\ [][NextBoardLayout]_vars

\* ------------------------------------------------------------------------
\* The filters over every collection the first load can bring
\* ------------------------------------------------------------------------

\* customer_name and customer_phone of the leads of a run
seedName == [i \in LeadIds |->
               IF i = "L1" THEN <<"A", "l", "i">> ELSE <<"B", "o", "b">>]
seedPhone == [i \in LeadIds |->
                IF i = "L1" THEN <<"0", "5", "0">> ELSE <<"0", "5", "5">>]

\* lead_items of a lead: no item, one item, two items
FilterItems ==
  {<<>>,
   <<[product_type |-> "fp_pro"]>>,
   <<[product_type |-> "fw"], [product_type |-> "ft"]>>}

FilterStages == {"price_shared", "payment_done", "delivered"}

\* a row of the leads table with the fields the filters read (Board.tsx:43-60)
FilterRow(i, st, pt, dm, items) ==
  [id |-> i, status |-> st, payment_type |-> pt, delivery_method |-> dm,
   customer_name |-> seedName[i], order_id |-> seedOrderId[i],
   customer_phone |-> seedPhone[i], lead_items |-> items]

FilterRows(i) ==
  {FilterRow(i, st, pt, dm, items) :
     st \in FilterStages, pt \in {None, "cod"}, dm \in {None, "courier"},
     items \in FilterItems}

\* what the user may type or pick
SearchTerms == {<<>>, <<"A", "L">>, <<"f", "p">>, <<"5", "5">>}
ProductTypeChoices == {"all", "fp_pro", "ft"}
StatusChoices == {"all", "payment_done", "delivered"}

InitFilter ==
  /\ ClientInit
  /\ GateIdle
  /\ \E S \in SUBSET LeadIds :
       remote \in {r \in [S -> UNION {FilterRows(i) : i \in LeadIds}] :
                     \A i \in S : r[i].id = i}
  /\ trash = EmptyBag
  /\ prefStore = NoRow

NextFilter ==
  \/ \E k \in 1..MaxInFlight, ok \in BOOLEAN : LoadServe(k, ok)
  \/ \E k \in 1..MaxInFlight : LoadComplete(k)
  \/ \E term \in SearchTerms : SetSearchTerm(term)
  \/ \E productType \in ProductTypeChoices :
       SetSelectedProductType(productType)
  \/ \E status \in StatusChoices : SetSelectedStatus(status)
  \/ ToggleMissingPayment
  \/ HandleClearFilters

SpecFilter == InitFilter /\ [][NextFilter]_vars

\* ------------------------------------------------------------------------
\* The selection when handleLeadSelect is called with any arguments
\* ------------------------------------------------------------------------

NextSelectHandlers ==
  \/ \E k \in 1..MaxInFlight, ok \in BOOLEAN : LoadServe(k, ok)
  \/ \E k \in 1..MaxInFlight : LoadComplete(k)
  \/ ToggleSelectionMode
  \/ \E i \in LeadIds, selected \in BOOLEAN : CallHandleLeadSelect(i, selected)
  \/ HandleClearSelection
  \/ SubscriptionNotify
  \/ \E i \in LeadIds : OtherCreate(i)

SpecSelectHandlers == InitBulk /\ [][NextSelectHandlers]_vars

\* ------------------------------------------------------------------------
\* The board under drags while other clients soft-delete leads, so that a
\* card can leave the collection during a drag
\* ------------------------------------------------------------------------

NextDrop ==
  \/ \E k \in 1..MaxInFlight : LoadServe(k, TRUE)
  \/ \E k \in 1..MaxInFlight : LoadComplete(k)
  \/ SubscriptionNotify
  \/ \E i \in LeadIds : HandleDragStart(i)
  \/ \E x \in BoardStages \cup LeadIds \cup {None} : DragOver(x)
  \/ DragEndIgnored
  \/ DragEndRejected
  \/ DragEndAccepted
  \/ \E k \in 1..MaxUpdates : UpdateServe(k, TRUE)
  \/ \E k \in 1..MaxUpdates : UpdateComplete(k)
  \/ \E i \in LeadIds : OtherSoftDelete(i)

SpecDrop == Init /\ [][NextDrop]_vars

\* ------------------------------------------------------------------------
\* Soft delete through each of the three handlers followed by restore, when
\* the store fails no request and the user acts on a settled board
\* ------------------------------------------------------------------------

\* the row of lead i before any deletion
seedLead(i) == LeadRow(i, "payment_done", seedPayment[i], seedDelivery[i])

InitTrash ==
  /\ ClientInit
  /\ GateIdle
  /\ remote = [i \in LeadIds |-> seedLead(i)]
  /\ trash = EmptyBag
  /\ prefStore = NoRow

\* no handler of the trash is running
RunsIdle ==
  /\ bulk.pc = "idle"
  /\ restore.pc = "idle"
  /\ deleteAll.pc = "idle"
  /\ editDelete.pc = "idle"

\* the user acts on a board that has settled: no handler is running, no
\* load is in flight and no notification is pending
Settled == RunsIdle /\ loads = <<>> /\ notes = 0

NextRoundTrip ==
  \/ \E k \in 1..MaxInFlight : LoadServe(k, TRUE)
  \/ LoadComplete(1)
  \/ SubscriptionNotify
  \/ Settled /\ ToggleSelectionMode
  \/ \E i \in LeadIds : Settled /\ HandleLeadSelect(i)
  \/ Settled /\ HandleBulkDelete
  \/ BulkInsertServe(TRUE)
  \/ BulkInsertResponse
  \/ BulkDeleteServe(TRUE)
  \/ BulkDeleteResponse
  \/ Settled /\ SetConfirmText("DELETE")
  \/ Settled /\ HandleDeleteAll
  \/ DeleteAllFetchServe(TRUE)
  \/ DeleteAllContinue
  \/ DeleteAllInsertServe(TRUE)
  \/ DeleteAllDeleteServe(TRUE)
  \/ DeleteAllDeleteResponse
  \/ \E i \in LeadIds : Settled /\ HandleDelete(i)
  \/ EditInsertServe(TRUE)
  \/ EditInsertResponse
  \/ EditDeleteServe(TRUE)
  \/ EditDeleteResponse
  \/ \E s \in BagToSet(trash) : Settled /\ HandleRestore(s)
  \/ RestoreLeadServe(TRUE)
  \/ RestoreContinue
  \/ RestoreItemsServe(TRUE)
  \/ RestoreDeleteServe(TRUE)
  \/ RestoreDeleteResponse

SpecRoundTrip == InitTrash /\ [][NextRoundTrip]_vars

\* ------------------------------------------------------------------------
\* Restore under failing requests while other clients soft-delete and
\* restore leads
\* ------------------------------------------------------------------------

NextRestore ==
  \/ \E k \in 1..MaxInFlight : LoadServe(k, TRUE)
  \/ LoadComplete(1)
  \/ SubscriptionNotify
  \/ \E s \in BagToSet(trash) : HandleRestore(s)
  \/ \E ok \in BOOLEAN : RestoreLeadServe(ok)
  \/ RestoreContinue
  \/ \E ok \in BOOLEAN : RestoreItemsServe(ok)
  \/ \E ok \in BOOLEAN : RestoreDeleteServe(ok)
  \/ RestoreDeleteResponse
  \/ \E i \in LeadIds : OtherSoftDelete(i)
  \/ \E s \in BagToSet(trash) : OtherRestore(s)

SpecRestore == InitTrash /\ [][NextRestore]_vars

\* ------------------------------------------------------------------------
\* Delete-all under failing requests while other clients create and
\* soft-delete leads
\* ------------------------------------------------------------------------

NextDeleteAll ==
  \/ \E k \in 1..MaxInFlight : LoadServe(k, TRUE)
  \/ LoadComplete(1)
  \/ SubscriptionNotify
  \/ \E text \in ConfirmTexts : SetConfirmText(text)
  \/ HandleDeleteAll
  \/ \E ok \in BOOLEAN : DeleteAllFetchServe(ok)
  \/ DeleteAllContinue
  \/ \E ok \in BOOLEAN : DeleteAllInsertServe(ok)
  \/ \E ok \in BOOLEAN : DeleteAllDeleteServe(ok)
  \/ DeleteAllDeleteResponse
  \/ \E i \in LeadIds : OtherCreate(i)
  \/ \E i \in LeadIds : OtherSoftDelete(i)

SpecDeleteAll == InitBulk /\ [][NextDeleteAll]_vars

\* ------------------------------------------------------------------------
\* Step predicates used by the properties
\* ------------------------------------------------------------------------

\* this step is handleDragEnd
IsDragEnd == activeId # None /\ activeId' = None

\* the stage the drop of the current drag stands for
DropTarget == resolveTarget(over, leads)

\* the in-memory row of the dragged lead
DraggedLead == leads[FindLead(leads, activeId)]

\* this step handles the response of update k
IsUpdateResponse(k) ==
  /\ k \in 1..Len(updates)
  /\ updates[k].phase # "sent"
  /\ updates' = RemoveAt(updates, k)

\* this step handles the response of load k
IsLoadResponse(k) ==
  /\ k \in 1..Len(loads)
  /\ loads[k].phase # "sent"
  /\ loads' = RemoveAt(loads, k)

\* the status of lead i in collection ls, None when the lead is not in it
StatusIn(ls, i) ==
  IF FindLead(ls, i) = 0 THEN None ELSE ls[FindLead(ls, i)].status

\* the in-memory status of lead i
MemoryStatus(i) == StatusIn(leads, i)

\* nothing is in flight and no notification is pending
Quiescent == loads = <<>> /\ updates = <<>> /\ notes = 0

\* ------------------------------------------------------------------------
\* Properties
\* ------------------------------------------------------------------------

\* C1: every lead that the delete call of a bulk soft delete removes from the
\* leads table has, at the moment of the removal, a snapshot carrying its id
\* in deleted_leads.
C1_RemovedLeadsAreSnapshotted ==
  [][\A i \in LeadIds :
       (/\ bulk.pc = "delete_sent"
        /\ bulk'.pc = "delete_ok"
        /\ i \in DOMAIN remote
        /\ i \notin DOMAIN remote')
       => HasSnapshot(trash, i)]_vars

\* C2: when the snapshot insert of a bulk soft delete fails, the run ends
\* without issuing the delete: the leads table and the selection are left as
\* they were and the failure notice is shown.
C2_InsertFailureAborts ==
  [][(bulk.pc = "insert_error" /\ bulk' # bulk)
       => /\ bulk'.pc = "idle"
          /\ remote' = remote
          /\ trash' = trash
          /\ selectedLeads' = selectedLeads
          /\ selectionMode' = selectionMode
          /\ toast' = ToastDeleteFailed]_vars

\* a failed insert has been handled: the failure notice is up, nothing was
\* snapshotted and the selected leads are still in the leads table
C2_Witness ==
  /\ bulk.pc = "idle"
  /\ toast = ToastDeleteFailed
  /\ trash = EmptyBag
  /\ selectedLeads # <<>>
  /\ Range(selectedLeads) \subseteq DOMAIN remote
  /\ Range(selectedLeads) \subseteq LeadIdsOf(leads)

\* C3: the gate rejects exactly when the target stage is production or
\* delivered and the lead's payment_type is unset; every other combination
\* of lead and target stage is allowed.
C3_GateRejectsExactly ==
  gateResult # "idle" =>
    /\ gateResult \in {"Allowed", "Rejected"}
    /\ gateResult = "Rejected" <=>
         (gateTarget \in {"production", "delivered"}
          /\ gateLead.payment_type = None)

\* the gate has rejected a move to delivered of a lead without payment_type
\* whose delivery_method is set
C3_Witness ==
  /\ gateResult = "Rejected"
  /\ gateTarget = "delivered"
  /\ gateLead.payment_type = None
  /\ gateLead.delivery_method # None

\* C4: a drag that the gate rejects changes nothing: the in-memory
\* collection is the same before and after, no update and no load is issued,
\* the leads table is untouched and the payment-type notice is shown.
C4_RejectedDragChangesNothing ==
  [][(/\ IsDragEnd
      /\ ~dragIgnored(over, leads, activeId)
      /\ DropTarget \in {"production", "delivered"}
      /\ DraggedLead.payment_type = None)
       => /\ leads' = leads
          /\ updates' = updates
          /\ loads' = loads
          /\ remote' = remote
          /\ toast' = ToastPaymentRequired(DropTarget)
          /\ toast' \in ErrorToasts]_vars

\* the drag of the lead without payment_type to production has been rejected
\* and the lead is still in payment_done
C4_Witness ==
  /\ toast = ToastPaymentRequired("production")
  /\ activeId = None
  /\ updates = <<>>
  /\ MemoryStatus("L1") = "payment_done"

\* C5: an accepted drag sets the dragged lead's in-memory status to the
\* target stage in the step that sends the update, and sends exactly one
\* update, addressed to that lead's id and carrying only the status field
\* with the target stage.
C5_AcceptedDragIsOptimistic ==
  [][(/\ IsDragEnd
      /\ ~dragIgnored(over, leads, activeId)
      /\ ~(DropTarget \in {"production", "delivered"}
           /\ DraggedLead.payment_type = None))
       => /\ StatusIn(leads', activeId) = DropTarget
          /\ updates' = Append(updates,
                               [id |-> activeId,
                                fields |-> [status |-> DropTarget],
                                phase |-> "sent"])]_vars

\* an update to production is on its way, not yet executed by the store, and
\* the lead already shows in production in memory
C5_Witness ==
  \E k \in 1..Len(updates) :
    /\ updates[k].phase = "sent"
    /\ updates[k].fields.status = "production"
    /\ MemoryStatus(updates[k].id) = "production"
    /\ remote[updates[k].id].status = "payment_done"

\* C6: the handler of a failed update issues a fresh load and does not touch
\* the in-memory collection itself; the store answers a load with the rows
\* it holds, and a load that completes with data makes that data the
\* in-memory collection.
C6_FailedUpdateResyncs ==
  [][/\ \A k \in 1..Len(updates) :
          (IsUpdateResponse(k) /\ updates[k].phase = "error")
            => /\ loads' = Append(loads, [phase |-> "sent", data |-> <<>>])
               /\ leads' = leads
               /\ toast' = ToastUpdateFailed
     /\ \A k \in 1..Len(loads) :
          (/\ Len(loads') = Len(loads)
           /\ loads[k].phase = "sent"
           /\ loads'[k].phase = "data")
            => loads'[k].data = Query(remote)
     /\ \A k \in 1..Len(loads) :
          (IsLoadResponse(k) /\ loads[k].phase = "data")
            => leads' = loads[k].data]_vars

\* an update has failed: its notice is up, the resync load is in flight and
\* the optimistic status is still in memory
C6_Witness ==
  /\ toast = ToastUpdateFailed
  /\ updates = <<>>
  /\ loads # <<>>
  /\ \E i \in LeadIds :
       MemoryStatus(i) # None /\ MemoryStatus(i) # remote[i].status

\* C7: once no request is in flight and no notification is pending, the
\* in-memory status of every lead equals its status in the leads table.
C7_QuiescentMemoryMatchesStore ==
  Quiescent =>
    \A i \in LeadIdsOf(leads) :
      i \in DOMAIN remote /\ MemoryStatus(i) = remote[i].status

\* C8: when the success response of an update is handled, the in-memory
\* status of the dragged lead is the target stage.
C8_MemoryCorrectOnSuccess ==
  [][\A k \in 1..Len(updates) :
       (IsUpdateResponse(k) /\ updates[k].phase = "ok")
         => MemoryStatus(updates[k].id) = updates[k].fields.status]_vars

\* C9: a failed load leaves the in-memory collection exactly as it was and
\* shows the fetch-failure notice.
C9_FailedLoadKeepsCollection ==
  [][\A k \in 1..Len(loads) :
       (IsLoadResponse(k) /\ loads[k].phase = "error")
         => /\ leads' = leads
            /\ toast' = ToastFetchFailed]_vars

\* a load has failed while the collection held every lead, and it still does
C9_Witness ==
  /\ toast = ToastFetchFailed
  /\ LeadIdsOf(leads) = LeadIds

\* C10: a load that completes with data replaces the whole in-memory
\* collection with that data, whichever position the load has in the issue
\* order, so the load that completes last determines the collection.
C10_LastCompletedLoadWins ==
  [][\A k \in 1..Len(loads) :
       (IsLoadResponse(k) /\ loads[k].phase = "data")
         => leads' = loads[k].data]_vars

\* no request has failed and no drag has been made, nothing is in flight,
\* and yet memory differs from the leads table: a load issued earlier has
\* completed after a later one and put its older data in place
C10_Witness ==
  /\ toast = NoToast
  /\ Quiescent
  /\ leads # <<>>
  /\ leads # Query(remote)

\* C11: every change notification the subscription delivers issues exactly
\* one load and does nothing else, and nothing but a notification issues a
\* load; when the responses are handled in issue order, the data of the
\* last outstanding load becomes the in-memory collection, so that once
\* every notification has been delivered and every load has been handled
\* without a failure the collection is what the leads table holds.
C11_NotificationIssuesOneLoad ==
  /\ [][/\ (notes' = notes - 1)
             => /\ loads' = Append(loads, [phase |-> "sent", data |-> <<>>])
                /\ leads' = leads
                /\ remote' = remote
        /\ (Len(loads') > Len(loads)) => (notes' = notes - 1)
        /\ (/\ Len(loads) = 1
            /\ loads' = <<>>
            /\ loads[1].phase = "data") => (leads' = loads[1].data)]_vars
  /\ []((Quiescent /\ toast = NoToast) => leads = Query(remote))

\* the first load has completed and two notifications have each issued a
\* load since; both are answered, with different data
C11_Witness ==
  /\ leads # <<>>
  /\ notes = 0
  /\ Len(loads) = 2
  /\ loads[1].phase = "data"
  /\ loads[2].phase = "data"
  /\ loads[1].data # loads[2].data

\* C12: a drag whose resolved target stage is the dragged lead's in-memory
\* stage issues no update and no load and leaves the in-memory collection,
\* the leads table and the notice as they were.
C12_SameStageDragIsNoOp ==
  [][(/\ IsDragEnd
      /\ DropTarget # None
      /\ MemoryStatus(activeId) = DropTarget)
       => /\ leads' = leads
          /\ updates' = updates
          /\ loads' = loads
          /\ remote' = remote
          /\ toast' = toast]_vars

\* the lead without payment_type shows in production (another client moved
\* it there) and is being dropped on the production column
C12_Witness ==
  /\ activeId = "L1"
  /\ over = "production"
  /\ MemoryStatus("L1") = "production"
  /\ updates = <<>>

\* C13: for a lead whose payment_type is set, a move to production or
\* delivered is allowed whether delivery_method is set or not, and for every
\* lead and target the outcome is the one the gate gives the same lead with
\* delivery_method unset.
C13_GateIgnoresDeliveryMethod ==
  gateResult # "idle" =>
    /\ (gateLead.payment_type # None
         /\ gateTarget \in {"production", "delivered"})
          => gateResult = "Allowed"
    /\ (gateResult = "Allowed") <=>
         canTransition([gateLead EXCEPT !.delivery_method = None],
                       gateTarget)

\* the gate has allowed a move to delivered of a lead with payment_type set
\* and delivery_method unset
C13_Witness ==
  /\ gateResult = "Allowed"
  /\ gateTarget = "delivered"
  /\ gateLead.payment_type # None
  /\ gateLead.delivery_method = None

\* C14: whatever handlers have run on whatever columns, at most one column
\* is rendered with isMaximized = true.
C14_AtMostOneMaximized ==
  Cardinality({id \in Range(columns) : isMaximized(id, maximizedColumn)}) <= 1

\* a column is maximized while two others are minimized
C14_Witness ==
  /\ isMaximized("production", maximizedColumn)
  /\ {"payment_done", "delivered"} \subseteq minimizedColumns

\* C15: the user's maximize action on column X, the Expand button of the
\* minimized column X, leaves X maximized, X not minimized and no other
\* column maximized.
C15_ExpandMaximizes ==
  [][\A id \in Range(columns) :
       (id \in minimizedColumns /\ id \notin minimizedColumns')
         => /\ maximizedColumn' = id
            /\ \A other \in Range(columns) :
                 isMaximized(other, maximizedColumn') <=> other = id]_vars

\* C16: a step that puts column X into the minimized set clears the
\* maximized reference when it was X and leaves it as it was otherwise, and
\* takes no other column into or out of the minimized set.
C16_MinimizeClearsOwnMaximize ==
  [][\A id \in Range(columns) :
       (id \notin minimizedColumns /\ id \in minimizedColumns')
         => /\ minimizedColumns' = minimizedColumns \cup {id}
            /\ maximizedColumn = id => maximizedColumn' = None
            /\ maximizedColumn # id => maximizedColumn' = maximizedColumn]_vars

\* production is minimized and delivered, maximized before or after, still
\* is the maximized column
C16_Witness ==
  /\ "production" \in minimizedColumns
  /\ maximizedColumn = "delivered"

\* C17: every stored width is within [250, 600], and a mousemove of a resize
\* stores 250 for a pointer width below 250, 600 for one above 600 and the
\* pointer width itself otherwise, for the column whose handle is held and
\* for no other column.
C17_StoredWidthsAreClamped ==
  /\ [](\A id \in DOMAIN columnWidths :
          columnWidths[id] >= 250 /\ columnWidths[id] <= 600)
  /\ [][(resizing # None /\ resizing' = resizing
         /\ Len(prefSaves') > Len(prefSaves))
          => /\ columnWidths'[resizing] =
                  IF pointerWidth' < 250 THEN 250
                  ELSE IF pointerWidth' > 600 THEN 600
                  ELSE pointerWidth'
             /\ \A id \in DOMAIN columnWidths \ {resizing} :
                  columnWidths'[id] = columnWidths[id]]_vars

\* Scenario D: the handle of production is held, the pointer is at width
\* 700 and 600 is stored, while payment_done, dragged below the range
\* earlier, holds 250
C17_Witness ==
  /\ resizing = "production"
  /\ pointerWidth = 700
  /\ {"production", "payment_done"} \subseteq DOMAIN columnWidths
  /\ columnWidths["production"] = 600
  /\ columnWidths["payment_done"] = 250

\* C18: every step that changes the width map, the minimized set or the
\* maximized column at the user's hand issues an upsert whose content is the
\* new width map, minimized set and maximized column.
C18_EveryMutationIsPersisted ==
  [][(/\ prefLoad' = prefLoad
      /\ <<columnWidths, minimizedColumns, maximizedColumn>>' #
           <<columnWidths, minimizedColumns, maximizedColumn>>)
       => /\ Len(prefSaves') = Len(prefSaves) + 1
          /\ prefSaves'[Len(prefSaves')].columnWidths = columnWidths'
          /\ {"columnWidths", "minimizedColumns", "maximizedColumn"}
               \subseteq prefSaves'[Len(prefSaves')].keys]_vars

\* the four predicates of the filter on a lead, as the filter state stands
PassesFilters(lead) ==
  /\ matchesSearch(lead, searchTerm)
  /\ matchesProductType(lead, selectedProductType)
  /\ matchesStatus(lead, selectedStatus)
  /\ matchesPaymentFilter(lead, showMissingPaymentOnly)

\* C19: the rendered filteredLeads is the in-memory collection with exactly
\* the leads failing one of the four predicates left out, the others in
\* their order, and computing it again from the same collection and filter
\* state gives the same value.
C19_FilteredLeadsIsExactSubsequence ==
  /\ \E f \in [1..Len(rendered.filteredLeads) -> 1..Len(leads)] :
       /\ \A k \in 1..Len(rendered.filteredLeads) :
            /\ rendered.filteredLeads[k] = leads[f[k]]
            /\ \A j \in 1..(k - 1) : f[j] < f[k]
       /\ \A j \in 1..Len(leads) :
            PassesFilters(leads[j])
              <=> \E k \in 1..Len(rendered.filteredLeads) : f[k] = j
  /\ rendered.filteredLeads =
       filteredLeads(leads, searchTerm, selectedProductType, selectedStatus,
                     showMissingPaymentOnly)

\* all four filters are active, two leads are in memory and exactly the
\* older one passes
C19_Witness ==
  /\ searchTerm # <<>>
  /\ selectedProductType # "all"
  /\ selectedStatus # "all"
  /\ showMissingPaymentOnly
  /\ Len(leads) = 2
  /\ Len(rendered.filteredLeads) = 1
  /\ rendered.filteredLeads[1].id = "L1"

\* the index set of the leads in memory that miss payment info: status
\* payment_done, production or delivered, and payment_type or
\* delivery_method unset
MissingInMemory ==
  {j \in 1..Len(leads) :
     /\ leads[j].status \in {"payment_done", "production", "delivered"}
     /\ (leads[j].payment_type = None \/ leads[j].delivery_method = None)}

\* C20: the counter is the number of leads in memory that miss payment
\* info, whatever the filters are, and while the toggle is on every rendered
\* lead misses payment info and every lead in memory that misses payment
\* info and passes the other three filters is rendered.
C20_MissingPaymentCounterAndToggle ==
  /\ rendered.missingPaymentInfoCount = Cardinality(MissingInMemory)
  /\ showMissingPaymentOnly =>
       /\ \A k \in 1..Len(rendered.filteredLeads) :
            \E j \in MissingInMemory : leads[j] = rendered.filteredLeads[k]
       /\ \A j \in MissingInMemory :
            (/\ matchesSearch(leads[j], searchTerm)
             /\ matchesProductType(leads[j], selectedProductType)
             /\ matchesStatus(leads[j], selectedStatus))
              => \E k \in 1..Len(rendered.filteredLeads) :
                   rendered.filteredLeads[k] = leads[j]

\* the toggle and the search are on; both leads miss payment info, one for
\* payment_type and one for delivery_method only, the counter says two and
\* one of them is rendered
C20_Witness ==
  /\ showMissingPaymentOnly
  /\ searchTerm # <<>>
  /\ rendered.missingPaymentInfoCount = 2
  /\ Len(rendered.filteredLeads) = 1
  /\ \E j \in 1..2 : leads[j].payment_type # None
  /\ \E j \in 1..2 : leads[j].delivery_method # None

\* C21: a step that turns selection mode off (the exit toggle, the Clear
\* action, a finished bulk delete) leaves the selection empty, and in every
\* reachable state with selection mode off the selection is empty.
C21_ExitClearsSelection ==
  /\ [][(selectionMode /\ ~selectionMode') => selectedLeads' = <<>>]_vars
  /\ [](~selectionMode => selectedLeads = <<>>)

\* selection mode is off again after leads had been selected: the selection
\* was cleared by the bulk delete that just reported its success
C21_Witness ==
  /\ ~selectionMode
  /\ selectedLeads = <<>>
  /\ toast = ToastLeadsDeleted
  /\ trash # EmptyBag

\* C22: a call of the selection handler that is repeated with the same
\* arguments leaves the selection as the first call left it, no lead id
\* occurs more than once in the selection, and the selected count is the
\* number of distinct selected leads.
C22_ToggleIsIdempotent ==
  /\ [][\A i \in LeadIds, selected \in BOOLEAN :
          (/\ selectionMode
           /\ selectionMode'
           /\ selectedLeads' = handleLeadSelect(selectedLeads, i, selected))
          => handleLeadSelect(selectedLeads', i, selected) = selectedLeads'
       ]_vars
  /\ [](Len(selectedLeads) = Cardinality(Range(selectedLeads)))

\* C23: in a bulk soft delete of the N selected leads the insert adds exactly
\* N snapshots, one per selected lead and each with a restore deadline 30
\* days after its deletion time, the delete removes those leads and no other
\* from the leads table, and the handling of its success empties the
\* selection and issues a load.
C23_BulkDeleteSnapshotsAndRemovesSelection ==
  [][/\ (bulk.pc = "insert_sent" /\ bulk'.pc = "insert_ok")
          => /\ BagCardinality(trash' (-) trash) = Cardinality(bulk.ids)
             /\ \A i \in bulk.ids :
                  \E r \in BagToSet(trash' (-) trash) :
                    r.lead_id = i /\ r.restore_days = 30
     /\ (bulk.pc = "delete_sent" /\ bulk'.pc = "delete_ok")
          => DOMAIN remote' = DOMAIN remote \ bulk.ids
     /\ (bulk.pc = "delete_ok" /\ bulk'.pc = "idle")
          => /\ selectedLeads' = <<>>
             /\ loads' = fetchLeads(loads)]_vars

\* C30: the lead ids sent in the delete call of a bulk soft delete are
\* exactly the lead ids of the snapshots the same run inserted.
C30_SnapshottedIdsAreDeletedIds ==
  [][(bulk.pc = "delete_sent" /\ bulk'.pc \in {"delete_ok", "delete_error"})
       => bulk.ids = {bulk.rows[k].lead_id : k \in 1..Len(bulk.rows)}]_vars

\* C26: whatever minimize, maximize and normal-view operations have run on
\* whatever columns, no column is both in the minimized set and the
\* maximized column.
C26_NeverMinimizedAndMaximized ==
  \A id \in Range(columns) :
    ~(isMinimized(id, minimizedColumns) /\ isMaximized(id, maximizedColumn))

\* every column but one is minimized and that one, which can only have left
\* the minimized set through an operation on it, is the maximized column
C26_Witness ==
  /\ maximizedColumn = "leads"
  /\ minimizedColumns = Range(columns) \ {"leads"}

\* the stage a drop on droppable over stands for by the rule of the claim
C24_Target ==
  IF over \in Range(columns) THEN over
  ELSE IF over \in LeadIdsOf(leads) THEN MemoryStatus(over)
  ELSE None

\* C24: a drop on a column stands for that column's stage and a drop on a
\* lead's card for that lead's in-memory status: an update or a payment
\* notice of the drag carries that stage, and a drag of a lead in memory to a
\* different stage that the gate allows sends the update; a drop on nothing
\* or on an id that is neither a stage nor a lead in memory changes nothing
\* and calls nothing.
C24_DropTargetResolution ==
  [][IsDragEnd =>
       /\ C24_Target = None
            => UNCHANGED <<leads, updates, loads, toast, storeVars>>
       /\ updates' # updates
            => updates' = Append(updates,
                                 [id |-> activeId,
                                  fields |-> [status |-> C24_Target],
                                  phase |-> "sent"])
       /\ toast' # toast => toast' = ToastPaymentRequired(C24_Target)
       /\ (/\ C24_Target # None
           /\ activeId \in LeadIdsOf(leads)
           /\ MemoryStatus(activeId) # C24_Target
           /\ canTransition(DraggedLead, C24_Target))
            => /\ updates' # updates
               /\ StatusIn(leads', activeId) = C24_Target]_vars

\* L1 is dragged over the card of L2, which has left the in-memory
\* collection since the drag went over it
C24_Witness ==
  /\ activeId = "L1"
  /\ over = "L2"
  /\ "L1" \in LeadIdsOf(leads)
  /\ "L2" \notin LeadIdsOf(leads)

\* C25: the step of an accepted drag keeps the number and the order of the
\* in-memory leads, every other lead and every field of the dragged lead but
\* status, and leaves the filter, selection and layout state as they were.
C25_OptimisticUpdateFrame ==
  [][(IsDragEnd /\ updates' # updates)
       => /\ Len(leads') = Len(leads)
          /\ \A k \in 1..Len(leads) :
               /\ leads'[k].id = leads[k].id
               /\ leads[k].id # activeId => leads'[k] = leads[k]
               /\ DOMAIN leads'[k] = DOMAIN leads[k]
               /\ \A f \in DOMAIN leads[k] \ {"status"} :
                    leads'[k][f] = leads[k][f]
          /\ UNCHANGED <<filterVars, selectVars, layoutVars>>]_vars

\* two leads are in memory, the update of one is on its way and that lead
\* shows its new stage while the other lead shows a different one
C25_Witness ==
  \E k \in 1..Len(updates) :
    /\ updates[k].phase = "sent"
    /\ Len(leads) = 2
    /\ MemoryStatus(updates[k].id) = updates[k].fields.status
    /\ \E i \in LeadIdsOf(leads) :
         i # updates[k].id /\ MemoryStatus(i) # updates[k].fields.status

\* C27: when a restore completes, the restored lead is in the leads table
\* with the id, order_id, status, payment_type, delivery_method and order
\* items it had before it was soft-deleted, whichever of the three handlers
\* deleted it.
C27_SoftDeleteRestoreRoundTrip ==
  [][(restore.pc = "delete_sent" /\ restore'.pc = "delete_ok")
       => /\ restore.snap.lead_id \in DOMAIN remote'
          /\ \A f \in {"id", "order_id", "status", "payment_type",
                       "delivery_method", "lead_items"} :
               remote'[restore.snap.lead_id][f] =
                 seedLead(restore.snap.lead_id)[f]]_vars

\* the lead of the snapshot being restored
C28_Lead == restore.snap.lead_id

\* C28: a restore sends the delete of the snapshot only on the success of
\* the insert of the lead and, when the snapshot has items, of the insert of
\* the items; a failed request of the run leaves the trash as it was and
\* ends the run; and during a restore run the lead is always in the leads
\* table or in the trash.
C28_RestoreKeepsSnapshotUntilReinserted ==
  /\ [][/\ (restore'.pc = "items_sent" /\ restore.pc # "items_sent")
             => restore.pc = "lead_ok"
        /\ (restore'.pc = "delete_sent" /\ restore.pc # "delete_sent")
             => \/ restore.pc = "items_ok"
                \/ restore.pc = "lead_ok" /\ restore.snap.lead_items = <<>>
        /\ (restore' # restore /\ restore'.pc # "delete_ok")
             => trash' = trash
        /\ (/\ restore.pc \in {"lead_error", "items_error", "delete_error"}
            /\ restore' # restore)
             => restore'.pc = "idle"
        /\ (restore.pc = "lead_sent" /\ restore'.pc = "lead_ok")
             => C28_Lead \in DOMAIN remote'
        /\ (restore.pc = "items_sent" /\ restore'.pc = "items_ok")
             => /\ C28_Lead \in DOMAIN remote'
                /\ remote'[C28_Lead].lead_items = restore.snap.lead_items
       ]_vars
  /\ [](restore.pc # "idle"
          => C28_Lead \in DOMAIN remote \/ HasSnapshot(trash, C28_Lead))

\* the insert of the items of a restore has failed after the lead was
\* inserted: the lead is live and its snapshot is still in the trash
C28_Witness ==
  /\ restore.pc = "items_error"
  /\ C28_Lead \in DOMAIN remote
  /\ restore.snap \in BagToSet(trash)

\* C29: every lead that the delete call of delete-all removes from the leads
\* table has a snapshot in deleted_leads at that moment, and a delete-all
\* handler that finds a confirmation text other than DELETE starts no run.
C29_DeleteAllRemovesOnlySnapshotted ==
  /\ [][(deleteAll.pc = "delete_sent" /\ deleteAll'.pc = "delete_ok")
          => \A i \in DOMAIN remote \ DOMAIN remote' : HasSnapshot(trash, i)
       ]_vars
  /\ [][(deleteAll.pc = "idle" /\ deleteAll.confirmText # "DELETE")
          => deleteAll'.pc = "idle"]_vars

====
